---- MODULE Spec2Model ----
(***************************************************************************)
(* Model of triple_wavelet_testing_all_meta_eccprior_kombine.py: the       *)
(* three-wavelet log-posterior (get_logP_uniform, get_logP), the walker    *)
(* initialiser (start_loc) and the driver that builds the synthetic        *)
(* dataset, initialises the walkers, computes the best log-posterior at    *)
(* the injected values and hands get_logP to a sampler with two workers.   *)
(*                                                                         *)
(* Numbers.  The program computes in float64; the model computes on a      *)
(* lattice of exact integers, one unit per kind of quantity:               *)
(*   centroid time      0.01 s          (x_sigma of a time, line 153)      *)
(*   grid time          0.01/TU s       (so that linspace is exact)        *)
(*   frequency          1/FU Hz         (x_sigma of a frequency = FU)      *)
(*   amplitude          1               (x_sigma of an amplitude)          *)
(*   quality factor     0.1             (x_sigma of a quality factor)      *)
(*   phase              0.2 rad         (x_sigma of a phase)               *)
(*   waveform sample    0.1                                                *)
(*   log-probability    1/200           (so that -0.5*sum(res^2) is exact) *)
(* Comparisons of the bounds filter are exact on this lattice.  exp, cos,  *)
(* sqrt and log are fixed-point rational approximations.  Results that     *)
(* float64 makes infinite or NaN are kept as such (kind "ninf", "pinf",    *)
(* "nan"), never replaced by a number.                                     *)
(***************************************************************************)
EXTENDS Integers, Sequences, FiniteSets, TLC

(***************************************************************************)
(* Bounds of the model                                                     *)
(***************************************************************************)
\* number of samples of the time grid (the driver uses 1000 points)
GridLen == 3
\* largest walker count --walkers the model runs with
MaxWalkers == 2

(***************************************************************************)
(* Units                                                                   *)
(***************************************************************************)
\* x_sigma (line 153) in the units of each dimension; one frequency sigma
\* (1 Hz) is three frequency units
x_sigma == <<1, 3, 1, 1, 1, 1, 3, 1, 1, 1, 1, 3, 1, 1, 1, 1, 1, 1, 1, 3>>
\* grid sub-units per centroid-time unit: makes tmin, tmax and the linspace
\* step integers
TU == 2 * (GridLen - 1)
\* frequency units per Hz
FU == x_sigma[2]
\* grid sub-units per second, times frequency units per Hz: f*t = 1 cycle
\* when F * T = CycleU
CycleU == 100 * TU * FU
\* largest phase unit not above pi (pi / 0.2 = 15.7...)
PiU == 3141592 \div 200000
\* one phase unit (0.2 rad) in thousandths of a cycle
PhaseMilli == (200 * 1000000) \div 6283185

(***************************************************************************)
(* Extended values: what a float64 log-probability can be                  *)
(***************************************************************************)
Fin(n) == [k |-> "fin", v |-> n]
NegInf == [k |-> "ninf", v |-> 0]
PosInf == [k |-> "pinf", v |-> 0]
NaN == [k |-> "nan", v |-> 0]

\* np.isinf
isinf(a) == a.k \in {"ninf", "pinf"}
\* np.isfinite
isfinite(a) == a.k = "fin"

\* float64 addition on extended values
ExtAdd(a, b) ==
  IF a.k = "nan" \/ b.k = "nan" THEN NaN
  ELSE IF a.k = "fin" /\ b.k = "fin" THEN Fin(a.v + b.v)
  ELSE IF a.k = "fin" THEN b
  ELSE IF b.k = "fin" THEN a
  ELSE IF a.k = b.k THEN a
  ELSE NaN

Abs(n) == IF n < 0 THEN -n ELSE n

(***************************************************************************)
(* Fixed-point elementary functions                                        *)
(***************************************************************************)
RECURSIVE SqrtBetween(_, _, _)
\* the r in lo..hi-1 with r*r <= n < (r+1)*(r+1), by bisection (the
\* midpoint is a bound variable, so that it is computed once)
SqrtBetween(n, lo, hi) ==
  IF hi - lo <= 1 THEN lo
  ELSE CHOOSE r \in {IF mid * mid <= n THEN SqrtBetween(n, mid, hi)
                                       ELSE SqrtBetween(n, lo, mid) :
                     mid \in {(lo + hi) \div 2}} : TRUE
\* floor of the square root of 0 <= n < 2^20
ISqrt(n) == SqrtBetween(n, 0, 1024)

\* cos of an angle given in thousandths of a cycle, in hundredths
\* (Bhaskara's rational approximation on a quarter period, reflected)
CosQuarter(m) == (100 * (1000000 - 16 * m * m)) \div (1000000 + 4 * m * m)
Cos100(mc) ==
  LET r == mc % 1000
      s == IF r > 500 THEN 1000 - r ELSE r
  IN IF s <= 250 THEN CosQuarter(s) ELSE -CosQuarter(500 - s)

\* exp(-v) for v >= 0 given in thousandths, in hundredths
\* (1/(1 + v + v^2/2); 0 once v > 20)
ExpNeg100(V) ==
  IF V > 20000 THEN 0
  ELSE 200000000 \div (2000000 + 2000 * V + V * V)

RECURSIVE LogRatio(_, _, _)
\* natural log of n/d (n, d > 0) in units of 1/200: ln 2 = 139 units,
\* ln y = 2(y-1)/(y+1) on [1, 2)
LogRatio(n, d, acc) ==
  IF n >= 2 * d THEN LogRatio(n, 2 * d, acc + 139)
  ELSE IF n < d THEN LogRatio(2 * n, d, acc - 139)
  ELSE acc + (400 * (n - d)) \div (n + d)

(***************************************************************************)
(* The pure functions of the program                                       *)
(***************************************************************************)
\* np.linspace(a, b, n)
linspace(a, b, n) == [k \in 1..n |-> a + ((k - 1) * (b - a)) \div (n - 1)]

\* cfreq*dt in thousandths of a cycle, for dt = T - ctime
CyclesMilli(T, ctime, cfreq) == (1000 * cfreq * (T - ctime * TU)) \div CycleU

\* one sample of the wavelet: amp*exp(-dt^2/tau^2)*cos(2 pi cfreq dt + phi0)
\* with tau = Q/(2 pi cfreq), so that dt/tau = 2 pi cfreq dt / Q (cm and um
\* are bound variables, so that each is computed once)
WaveletSample(T, ctime, cfreq, amp, Q, phi0) ==
  CHOOSE psi \in
    {(amp * (IF Abs(um) > 4472 THEN 0 ELSE ExpNeg100((um * um) \div 1000))
          * Cos100(cm + PhaseMilli * phi0)) \div 1000 :
       cm \in {CyclesMilli(T, ctime, cfreq)},
       um \in {(62832 * CyclesMilli(T, ctime, cfreq)) \div (1000 * Q)}} : TRUE

time_wavelet(times, ctime, cfreq, amp, Q, phi0) ==
  [k \in 1..Len(times) |-> WaveletSample(times[k], ctime, cfreq, amp, Q, phi0)]

\* elementwise sum of two sampled waveforms
WaveAdd(a, b) == [k \in 1..Len(a) |-> a[k] + b[k]]

\* SNR in hundredths.  sqrt of a negative number is NaN, a division by
\* zero is +-inf (0/0 is NaN).
get_snr(amp, cfreq, Q) ==
  IF Q < 0 \/ cfreq < 0 THEN NaN
  ELSE LET num == amp * ISqrt(1000 * Q)
           den == ISqrt((50133 * cfreq) \div FU)
       IN IF cfreq = 0
          THEN (IF num > 0 THEN PosInf ELSE IF num < 0 THEN NegInf ELSE NaN)
          ELSE Fin((100 * num) \div den)

RECURSIVE SumSq(_, _, _)
SumSq(a, b, k) ==
  IF k = 0 THEN 0
  ELSE CHOOSE q \in {res * res + SumSq(a, b, k - 1) : res \in {b[k] - a[k]}} : TRUE

RECURSIVE SumRes(_, _, _)
SumRes(a, b, k) == IF k = 0 THEN 0 ELSE (b[k] - a[k]) + SumRes(a, b, k - 1)

\* variant of get_logL: the residuals are summed without being squared
get_logL_linear(wavelet_model, wavelet_data) ==
  Fin(-SumRes(wavelet_model, wavelet_data, Len(wavelet_data)))

\* -0.5 * sum((data - model)^2), in units of 1/200
get_logL(wavelet_model, wavelet_data) ==
  Fin(-SumSq(wavelet_model, wavelet_data, Len(wavelet_data)))

\* log(amp_prior) for amp_prior = n/d
LogOfRatio(n, d) ==
  IF d = 0 THEN NaN
  ELSE IF n = 0 THEN NegInf
  ELSE IF (n < 0) # (d < 0) THEN NaN
  ELSE Fin(LogRatio(Abs(n), Abs(d), 0))

\* log(3*SNR / (4*(1 + SNR/4))) = log(3*SNR / (4 + SNR))
get_signal_logprior(amp, cfreq, Q) ==
  CHOOSE r \in {IF SNR.k # "fin" THEN NaN ELSE LogOfRatio(3 * SNR.v, 400 + SNR.v) :
                 SNR \in {get_snr(amp, cfreq, Q)}} : TRUE

(***************************************************************************)
(* Program constants                                                       *)
(***************************************************************************)
\* Amp = 50 (line 186)
Amp == 50
\* Q = 2 (line 187), in tenths
Q == 20
\* phi = 0 (line 188)
phi == 0
\* dim = 20 (line 214)
dim == 20
\* kb.Sampler(..., processes=2) (line 219)
processes == 2

VARIABLES
  pc,             \* position of the driver
  bursts,         \* the burst catalog: [t_SI, f_SI, de], read at line 168
  args,           \* [mtot, burst_idx, anchor_idx, walkers]
  time,           \* the Time Grid (line 192)
  ep,             \* the prior object NewPrior(tmin, tmax) (line 193)
  wavelets,       \* the Observed Data (line 198)
  wavelet_params, \* the reference vector (line 235)
  x0,             \* the walker population (start_loc)
  sl,             \* start_loc's locals: i, x, lp and its last get_logP call
  best,           \* the driver's best_log_* values (lines 241-244)
  drv_calls,      \* calls the driver itself makes to the Wavelet Model and
                  \* the Signal Amplitude Prior, in order
  ref_filtered,   \* whether get_logP_uniform has been evaluated on the
                  \* reference wavelet parameters so far
  wk              \* the get_logP call each sampler worker is running

vars == <<pc, bursts, args, time, ep, wavelets, wavelet_params, x0, sl, best,
          drv_calls, ref_filtered, wk>>

\* wavelet_params[k], k counted from 0 as in the source
At(wp, k) == wp[k + 1]

Unset == [k |-> "unset", v |-> 0]

\* a record of one call to a component
Call(fn, cfreq, amp, q) == [fn |-> fn, cfreq |-> cfreq, amp |-> amp, Q |-> q]

(***************************************************************************)
(* The external eccentricity prior.  NewPrior is not part of the source    *)
(* tree; it is modelled from its interface: constructed with the analysis  *)
(* window, get_logprior maps three (time, frequency) pairs and the five    *)
(* meta-parameters to a log-prior that is -inf for a disallowed            *)
(* configuration and a number otherwise.  Here a configuration is allowed  *)
(* when the centroids lie in the window in increasing order of time and    *)
(* the frequencies are positive.  The prior is given the window only, not  *)
(* the grid, so it cannot know the Nyquist frequency.                      *)
(***************************************************************************)
NewPrior(tmin, tmax) == [tmin |-> tmin, tmax |-> tmax]

get_logprior(prior, pairs, Mtot, Mchirp, destar, tstar, fstar) ==
  IF \/ \E i \in 1..3 : pairs[i][1] * TU < prior.tmin \/ pairs[i][1] * TU > prior.tmax
     \/ \E i \in 1..3 : pairs[i][2] <= 0
     \/ pairs[1][1] >= pairs[2][1]
     \/ pairs[2][1] >= pairs[3][1]
  THEN NegInf
  ELSE Fin(destar + Mtot - Mchirp - Abs(pairs[1][1] - tstar)
           - Abs(pairs[1][2] - fstar) - Abs(pairs[2][2] - fstar)
           - Abs(pairs[3][2] - fstar))

\* ep.get_logprior([[ts[0],fs[0]],[ts[1],fs[1]],[ts[2],fs[2]]], *meta_params)
EccOf(prior, wp) ==
  get_logprior(prior,
               <<<<At(wp, 0), At(wp, 1)>>, <<At(wp, 5), At(wp, 6)>>,
                 <<At(wp, 10), At(wp, 11)>>>>,
               At(wp, 15), At(wp, 16), At(wp, 17), At(wp, 18), At(wp, 19))

(***************************************************************************)
(* get_logP_uniform (lines 90-122)                                         *)
(***************************************************************************)
\* t < times[0] or t > times[-1]
BadTime(t, times) == t * TU < times[1] \/ t * TU > times[Len(times)]

\* f < abs(1/times[0]); 1/0.0 is inf in float64
BelowLowest(f, times) ==
  IF times[1] = 0 THEN TRUE ELSE f * Abs(times[1]) < CycleU

\* variant of AboveNyquist: the comparison is f >= dt_inv/2
AboveNyquistStrict(f, times) ==
  LET step == times[2] - times[1]
  IN IF step > 0 THEN 2 * f * step >= CycleU
     ELSE IF step = 0 THEN FALSE
     ELSE 2 * f * step <= CycleU

\* f > dt_inv/2 with dt_inv = 1/(times[1]-times[0])
AboveNyquist(f, times) ==
  LET step == times[2] - times[1]
  IN IF step > 0 THEN 2 * f * step > CycleU
     ELSE IF step = 0 THEN FALSE
     ELSE 2 * f * step < CycleU

BadFreq(f, times) == BelowLowest(f, times) \/ AboveNyquist(f, times)

\* q < 1
BadQ(q) == q < 10

\* variant of BadAmp: the amplitude loop is missing
BadAmpNever(a) == FALSE

\* a < 0
BadAmp(a) == a < 0

\* phi < -np.pi or phi > np.pi
BadPhi(p) == p < -PiU \/ p > PiU

\* the five loops of lines 103-117: TRUE when one of them returns -inf
LocalReject(wp, times) ==
  \/ \E k \in {0, 5, 10} : BadTime(At(wp, k), times)
  \/ \E k \in {1, 6, 11} : BadFreq(At(wp, k), times)
  \/ \E k \in {3, 8, 13} : BadQ(At(wp, k))
  \/ \E k \in {2, 7, 12} : BadAmp(At(wp, k))
  \/ \E k \in {4, 9, 14} : BadPhi(At(wp, k))

\* variant of UniformResult: lp is returned whatever it is
UniformResultRaw(lp) == lp

\* lines 119-122
UniformResult(lp) == IF isinf(lp) THEN lp ELSE Fin(0)

\* variant of get_logP_uniform: the external prior is evaluated before the
\* local loops
get_logP_uniform_eager(wp, times) ==
  LET lp == EccOf(ep, wp)
  IN [lp |-> IF LocalReject(wp, times) THEN NegInf ELSE UniformResult(lp),
      calls |-> <<Call("get_logprior", 0, 0, 0)>>]

\* the result and the calls made on the way
get_logP_uniform(wp, times) ==
  IF LocalReject(wp, times)
  THEN [lp |-> NegInf, calls |-> <<>>]
  ELSE [lp |-> UniformResult(EccOf(ep, wp)),
        calls |-> <<Call("get_logprior", 0, 0, 0)>>]

(***************************************************************************)
(* get_logP (lines 124-149), one step at a time.  A frame holds the locals *)
(* of one call.                                                            *)
(***************************************************************************)
IdleFrame ==
  [pc |-> "idle", x |-> <<>>, lp |-> Unset, log_ecc |-> Unset, i |-> 0,
   wavelet_model |-> <<>>, log_sig_prior |-> Unset, log_like |-> Unset,
   ret |-> Unset, calls |-> <<>>]

NewFrame(x) == [IdleFrame EXCEPT !.pc = "call", !.x = x]

\* variant of LogProb: the external prior is left out of the sum
LogProbNoEcc(log_like, log_sig_prior, log_ecc) == ExtAdd(log_like, log_sig_prior)

\* line 148
LogProb(log_like, log_sig_prior, log_ecc) ==
  ExtAdd(ExtAdd(log_like, log_sig_prior), log_ecc)

\* lines 131-135: the parameters of wavelet i (0, 1, 2)
Ts(wp, i) == At(wp, 5 * i)
Fs(wp, i) == At(wp, 5 * i + 1)
Amps(wp, i) == At(wp, 5 * i + 2)
Qs(wp, i) == At(wp, 5 * i + 3)
Phis(wp, i) == At(wp, 5 * i + 4)

get_logP_step(fr, times, wavelet_data) ==
  CASE fr.pc = "call" ->
         \* lines 126-128
         CHOOSE r \in
           {IF isinf(u.lp)
            THEN [fr EXCEPT !.pc = "done", !.lp = u.lp, !.ret = u.lp,
                            !.calls = u.calls]
            ELSE [fr EXCEPT !.pc = "prior", !.lp = u.lp, !.calls = u.calls] :
              u \in {get_logP_uniform(fr.x, times)}} : TRUE
    [] fr.pc = "prior" ->
         \* lines 139-141
         [fr EXCEPT !.pc = "loop",
                    !.log_ecc = EccOf(ep, fr.x),
                    !.wavelet_model = [k \in 1..Len(times) |-> 0],
                    !.log_sig_prior = Fin(0),
                    !.i = 0,
                    !.calls = Append(@, Call("get_logprior", 0, 0, 0))]
    [] fr.pc = "loop" ->
         \* lines 142-144, one iteration
         LET i == fr.i
             f == Fs(fr.x, i)
             a == Amps(fr.x, i)
             q == Qs(fr.x, i)
         IN [fr EXCEPT
               !.wavelet_model =
                  WaveAdd(@, time_wavelet(times, Ts(fr.x, i), f, a, q,
                                          Phis(fr.x, i))),
               !.log_sig_prior = ExtAdd(@, get_signal_logprior(a, f, q)),
               !.calls = @ \o <<Call("time_wavelet", f, a, q),
                                Call("get_signal_logprior", f, a, q)>>,
               !.i = i + 1,
               !.pc = IF i = 2 THEN "like" ELSE "loop"]
    [] fr.pc = "like" ->
         \* lines 146-149
         CHOOSE r \in
           {[fr EXCEPT !.pc = "done",
                       !.log_like = ll,
                       !.ret = LogProb(ll, fr.log_sig_prior, fr.log_ecc),
                       !.calls = Append(@, Call("get_logL", 0, 0, 0))] :
              ll \in {get_logL(fr.wavelet_model, wavelet_data)}} : TRUE
    [] OTHER -> fr

RECURSIVE RunFrame(_, _, _)
RunFrame(fr, times, wavelet_data) ==
  IF fr.pc \in {"done", "idle"} THEN fr
  ELSE CHOOSE r \in {RunFrame(nx, times, wavelet_data) :
                       nx \in {get_logP_step(fr, times, wavelet_data)}} : TRUE

\* a whole call of get_logP: the finished frame
get_logP(wp, times, wavelet_data) == RunFrame(NewFrame(wp), times, wavelet_data)
(***************************************************************************)
(* Inputs                                                                  *)
(***************************************************************************)
\* burst times of the catalog, in centroid-time units (10.0, 10.1, 10.2 s)
CatalogTimes == <<1000, 1010, 1020>>
CatalogDe == <<10, 12, 15>>

\* The Nyquist frequency of the grid the driver builds from CatalogTimes,
\* in frequency units: the window is 1.5*(t3 - t1), its step window/(n-1)
NyquistOfCatalog ==
  CycleU \div (2 * ((3 * (TU \div 2) * (CatalogTimes[3] - CatalogTimes[1]))
                    \div (GridLen - 1)))

\* The catalogs the model reads: the first burst's frequency is exactly at
\* Nyquist, one sigma above it, zero, or negative
CatalogFreqs ==
  LET ny == NyquistOfCatalog
  IN {<<ny, ny - FU, ny - FU>>, <<ny + FU, ny - FU, ny - FU>>,
      <<0, ny - FU, ny - FU>>, <<-2 * FU, ny - FU, ny - FU>>}

Catalogs == {[t_SI |-> CatalogTimes, f_SI |-> f, de |-> CatalogDe] : f \in CatalogFreqs}

Args == [mtot : {40}, burst_idx : {0}, anchor_idx : {0}, walkers : 1..MaxWalkers]

\* The values of x_sigma*np.random.randn(dim) the model draws: the draw
\* moves one dimension d (counted from 0) by z sigmas
Draws ==
  {[d |-> 0, z |-> 0], [d |-> 1, z |-> 1], [d |-> 1, z |-> -1],
   [d |-> 2, z |-> -Amp], [d |-> 0, z |-> 11], [d |-> 0, z |-> -6]}

\* wavelet_params + x_sigma*randn(dim)
Perturb(wp, dr) ==
  [k \in 1..dim |-> wp[k] + (IF k = dr.d + 1 THEN x_sigma[k] * dr.z ELSE 0)]

\* The vectors the sampler asks a worker to evaluate: a walker, or a walker
\* moved in one dimension d (counted from 0) by a number of units
Proposals ==
  {[d |-> 0, step |-> 0], [d |-> 1, step |-> 1], [d |-> 2, step |-> -Amp - 1],
   [d |-> 3, step |-> -11], [d |-> 4, step |-> 16]}

Propose(x, pr) == [k \in 1..dim |-> x[k] + (IF k = pr.d + 1 THEN pr.step ELSE 0)]

(***************************************************************************)
(* The driver (lines 166-297)                                              *)
(***************************************************************************)
\* lines 169-179
burst_low == args.burst_idx
t_SI(n) == bursts.t_SI[n + 1]
f_SI(n) == bursts.f_SI[n + 1]
Mtot == args.mtot
\* Mchirp = q**(3/5)/(1+q)**(6/5)*Mtot for mass ratio q = 1, in half units
Mchirp == (87055 * Mtot) \div 100000
destar == bursts.de[args.anchor_idx + 1]
tstar == t_SI(args.anchor_idx)
fstar == f_SI(args.anchor_idx)

\* lines 182-183, in grid sub-units
tmin == TU * t_SI(burst_low) + (TU \div 2) * (t_SI(burst_low) - t_SI(burst_low + 1))
tmax == TU * t_SI(burst_low + 2) + (TU \div 2) * (t_SI(burst_low + 2) - t_SI(burst_low + 1))

\* lines 224-236
Reference ==
  <<t_SI(burst_low), f_SI(burst_low), Amp, Q, phi,
    t_SI(burst_low + 1), f_SI(burst_low + 1), Amp, Q, phi,
    t_SI(burst_low + 2), f_SI(burst_low + 2), Amp, Q, phi,
    Mtot, Mchirp, destar, tstar, fstar>>

\* lines 192-198: the grid and the synthetic dataset
TimeGrid == linspace(tmin, tmax, GridLen)
Dataset ==
  WaveAdd(WaveAdd(time_wavelet(TimeGrid, t_SI(burst_low), f_SI(burst_low), Amp, Q, phi),
                  time_wavelet(TimeGrid, t_SI(burst_low + 1), f_SI(burst_low + 1), Amp, Q, phi)),
          time_wavelet(TimeGrid, t_SI(burst_low + 2), f_SI(burst_low + 2), Amp, Q, phi))

DrvCall(fn, cfreq, amp, q) ==
  [fn |-> fn, cfreq |-> cfreq, amp |-> amp, Q |-> q, filtered |-> ref_filtered]

\* whether x carries the wavelet parameters of the reference vector
SameWavelets(x, wp) == \A k \in 1..15 : x[k] = wp[k]

Init ==
  /\ pc = "make_dataset"
  /\ bursts \in Catalogs
  /\ args \in Args
  /\ time = <<>>
  /\ ep = NewPrior(0, 0)
  /\ wavelets = <<>>
  /\ wavelet_params = <<>>
  /\ x0 = <<>>
  /\ sl = [i |-> 0, x |-> <<>>, lp |-> Unset, fr |-> IdleFrame]
  /\ best = [eccprior |-> Unset, like |-> Unset, snr |-> Unset, post |-> Unset]
  /\ drv_calls = <<>>
  /\ ref_filtered = FALSE
  /\ wk = [w \in 1..processes |-> IdleFrame]

\* lines 192-199
MakeDataset ==
  /\ pc = "make_dataset"
  /\ time' = TimeGrid
  /\ ep' = NewPrior(tmin, tmax)
  /\ wavelets' = Dataset
  /\ drv_calls' = drv_calls \o
       [n \in 1..3 |-> DrvCall("time_wavelet", f_SI(burst_low + n - 1), Amp, Q)]
  /\ pc' = "start_loc"
  /\ UNCHANGED <<bursts, args, wavelet_params, x0, sl, best, ref_filtered, wk>>

\* lines 224-237 and 153-155: the reference vector and the first population
SlInit ==
  /\ pc = "start_loc"
  /\ wavelet_params' = Reference
  /\ \E pick \in [1..args.walkers -> Draws] :
       x0' = [n \in 1..args.walkers |-> Perturb(Reference, pick[n])]
  /\ sl' = [sl EXCEPT !.i = 1]
  /\ pc' = "sl_for"
  /\ UNCHANGED <<bursts, args, time, ep, wavelets, best, drv_calls, ref_filtered, wk>>

\* variant of StoreWalker: the new x is bound to the loop variable only
StoreWalkerLost(pop, i, x) == pop

\* line 163
StoreWalker(pop, i, x) == [pop EXCEPT ![i] = x]

\* variant of Resample: the while loop is never entered
ResampleNever(lp) == FALSE

\* line 159
Resample(lp) == isinf(lp)

\* lines 157-158: the next walker, or line 164
SlFor ==
  /\ pc = "sl_for"
  /\ IF sl.i > args.walkers
     THEN /\ pc' = "best"
          /\ UNCHANGED <<sl, ref_filtered>>
     ELSE \E fr \in {get_logP(x0[sl.i], time, wavelets)} :
             /\ sl' = [sl EXCEPT !.x = x0[sl.i], !.lp = fr.ret, !.fr = fr]
             /\ ref_filtered' = (ref_filtered \/ SameWavelets(x0[sl.i], wavelet_params))
             /\ pc' = "sl_while"
  /\ UNCHANGED <<bursts, args, time, ep, wavelets, wavelet_params, x0, best, drv_calls, wk>>

\* lines 160-163: one pass of the while body with the draw dr
SlResample(dr) ==
  /\ pc = "sl_while"
  /\ Resample(sl.lp)
  /\ \E x \in {Perturb(wavelet_params, dr)} :
       \E fr \in {get_logP(x, time, wavelets)} :
         /\ sl' = [sl EXCEPT !.x = x, !.lp = fr.ret, !.fr = fr]
         /\ x0' = StoreWalker(x0, sl.i, x)
         /\ ref_filtered' = (ref_filtered \/ SameWavelets(x, wavelet_params))
  /\ UNCHANGED <<pc, bursts, args, time, ep, wavelets, wavelet_params, best, drv_calls, wk>>

\* line 159 false: on to the next walker
SlAccept ==
  /\ pc = "sl_while"
  /\ ~Resample(sl.lp)
  /\ sl' = [sl EXCEPT !.i = @ + 1]
  /\ pc' = "sl_for"
  /\ UNCHANGED <<bursts, args, time, ep, wavelets, wavelet_params, x0, best,
                 drv_calls, ref_filtered, wk>>

\* lines 241-244
BestLogPost ==
  /\ pc = "best"
  /\ LET e == EccOf(ep, wavelet_params)
         l == get_logL(wavelets, wavelets)
         s == ExtAdd(ExtAdd(get_signal_logprior(Amp, At(wavelet_params, 1), Q),
                            get_signal_logprior(Amp, At(wavelet_params, 6), Q)),
                     get_signal_logprior(Amp, At(wavelet_params, 11), Q))
     IN best' = [eccprior |-> e, like |-> l, snr |-> s,
                 post |-> ExtAdd(ExtAdd(e, l), s)]
  /\ drv_calls' = drv_calls \o
       [n \in 1..3 |-> DrvCall("get_signal_logprior", At(wavelet_params, 5 * n - 4), Amp, Q)]
  /\ pc' = "sampling"
  /\ UNCHANGED <<bursts, args, time, ep, wavelets, wavelet_params, x0, sl, ref_filtered, wk>>

(***************************************************************************)
(* The sampler's workers (lines 219, 281-285): each evaluates              *)
(* get_logP(x, time, wavelets) on the vectors the sampler hands it         *)
(***************************************************************************)
WorkerCall(w) ==
  /\ pc = "sampling"
  /\ wk[w].pc \in {"idle", "done"}
  /\ \E n \in 1..Len(x0), pr \in Proposals :
       wk' = [wk EXCEPT ![w] = NewFrame(Propose(x0[n], pr))]
  /\ UNCHANGED <<pc, bursts, args, time, ep, wavelets, wavelet_params, x0, sl, best,
                 drv_calls, ref_filtered>>

\* variant of WorkerStep: the model waveform is accumulated in place in the
\* array that holds the Observed Data
WorkerStepInPlace(w) ==
  /\ pc = "sampling"
  /\ wk[w].pc \notin {"idle", "done"}
  /\ wk' = [wk EXCEPT ![w] = get_logP_step(wk[w], time, wavelets)]
  /\ wavelets' = IF wk[w].pc = "loop" THEN wk'[w].wavelet_model ELSE wavelets
  /\ ref_filtered' = (ref_filtered \/ (wk[w].pc = "call" /\ SameWavelets(wk[w].x, wavelet_params)))
  /\ UNCHANGED <<pc, bursts, args, time, ep, wavelet_params, x0, sl, best, drv_calls>>

WorkerStep(w) ==
  /\ pc = "sampling"
  /\ wk[w].pc \notin {"idle", "done"}
  /\ wk' = [wk EXCEPT ![w] = get_logP_step(wk[w], time, wavelets)]
  /\ ref_filtered' = (ref_filtered \/ (wk[w].pc = "call" /\ SameWavelets(wk[w].x, wavelet_params)))
  /\ UNCHANGED <<pc, bursts, args, time, ep, wavelets, wavelet_params, x0, sl, best, drv_calls>>

\* lines 287-297: the sampler has run its iterations
SamplerDone ==
  /\ pc = "sampling"
  /\ \A w \in 1..processes : wk[w].pc \in {"idle", "done"}
  /\ pc' = "done"
  /\ UNCHANGED <<bursts, args, time, ep, wavelets, wavelet_params, x0, sl, best,
                 drv_calls, ref_filtered, wk>>

StartLocNext ==
  \/ MakeDataset
  \/ SlInit
  \/ SlFor
  \/ \E dr \in Draws : SlResample(dr)
  \/ SlAccept
  \/ BestLogPost

Next ==
  \/ StartLocNext
  \/ \E w \in 1..processes : WorkerCall(w)
  \/ \E w \in 1..processes : WorkerStep(w)
  \/ SamplerDone

Spec == Init /\ [][Next]_vars
\* start_loc alone, with the draws fair: the random draws are independent,
\* so a draw that has positive probability is eventually made
SlResampleAccepted == \E dr \in Draws : SlResample(dr) /\ ~Resample(sl'.lp)

StartLocSpec ==
  /\ Init
  /\ [][StartLocNext]_vars
  /\ WF_vars(StartLocNext)
  /\ WF_vars(SlResampleAccepted)

(***************************************************************************)
(* Vocabulary of the properties                                            *)
(***************************************************************************)
\* the get_logP calls in progress or last finished
Frames == {sl.fr} \cup {wk[w] : w \in 1..processes}

\* a call whose bounds filter has returned
Filtered(fr) == fr.pc \notin {"idle", "call"}

InStartLoc == pc \in {"start_loc", "sl_for", "sl_while"}
StartLocReturned == pc \in {"best", "sampling", "done"}

\* the step of the grid, and a frequency exactly at 1/(2*step)
GridStep == time[2] - time[1]
AtNyquist(f) == 2 * f * GridStep = CycleU

\* a vector violates a local bound: a centroid time outside the grid, a
\* frequency outside [|1/times[0]|, 1/(2*step)], a quality factor below 1,
\* a negative amplitude or a phase outside [-pi, pi]
TimeOutside(x, w) == x[5 * w + 1] * TU < time[1] \/ x[5 * w + 1] * TU > time[GridLen]
FreqTooLow(x, w) == time[1] = 0 \/ x[5 * w + 2] * Abs(time[1]) < CycleU
FreqTooHigh(x, w) == 2 * x[5 * w + 2] * GridStep > CycleU
ViolatesLocalBound(x) ==
  \E w \in 0..2 :
    \/ TimeOutside(x, w)
    \/ FreqTooLow(x, w)
    \/ FreqTooHigh(x, w)
    \/ x[5 * w + 4] < 10
    \/ x[5 * w + 3] < 0
    \/ x[5 * w + 5] < -PiU
    \/ x[5 * w + 5] > PiU

\* the external prior on the three (time, frequency) pairs and the meta
\* parameters at (0-based) indices 15-19
EccAt(x) ==
  get_logprior(ep, <<<<x[1], x[2]>>, <<x[6], x[7]>>, <<x[11], x[12]>>>>,
               x[16], x[17], x[18], x[19], x[20])

\* the calls of one frame to a component
CallsTo(fr, fn) == {fr.calls[j] : j \in {j \in 1..Len(fr.calls) : fr.calls[j].fn = fn}}

(***************************************************************************)
(* C1.  When start_loc has returned, the population holds exactly          *)
(* nwalkers vectors and get_logP is finite on each of them.                *)
(***************************************************************************)
C1_StartLocFinite ==
  StartLocReturned =>
    /\ Len(x0) = args.walkers
    /\ \A n \in 1..Len(x0) : isfinite(get_logP(x0[n], time, wavelets).ret)

\* start_loc has returned although the reference vector itself is rejected
C1_Witness ==
  /\ pc = "best"
  /\ Len(x0) = MaxWalkers
  /\ isinf(get_logP(wavelet_params, time, wavelets).ret)

(***************************************************************************)
(* C2.  A vector that violates a local bound makes get_logP_uniform and    *)
(* get_logP return -inf, and no downstream component (external prior,      *)
(* Wavelet Model, Signal Amplitude Prior, Likelihood Evaluator) is called  *)
(* during that evaluation.                                                 *)
(***************************************************************************)
C2_RejectSkipsDownstream ==
  \A fr \in Frames :
    (Filtered(fr) /\ ViolatesLocalBound(fr.x)) =>
      /\ fr.pc = "done"
      /\ fr.lp = NegInf
      /\ fr.ret = NegInf
      /\ fr.calls = <<>>

\* a worker has evaluated a vector whose first frequency is above Nyquist,
\* next to a call that went through
C2_Witness ==
  /\ wk[1].pc = "done" /\ FreqTooHigh(wk[1].x, 0) /\ wk[1].ret = NegInf
  /\ wk[2].pc = "done" /\ isfinite(wk[2].ret)

(***************************************************************************)
(* C3.  The result of get_logP_uniform is -inf or 0 and nothing else.      *)
(***************************************************************************)
C3_UniformRange ==
  \A fr \in Frames : Filtered(fr) => fr.lp \in {NegInf, Fin(0)}

\* the filter returned 0 where the external prior returned a number other
\* than 0
C3_Witness ==
  \E fr \in Frames :
    /\ Filtered(fr)
    /\ fr.lp = Fin(0)
    /\ isfinite(EccAt(fr.x))
    /\ EccAt(fr.x) # Fin(0)

(***************************************************************************)
(* C4.  For a vector the filter accepts, get_logP returns the              *)
(* log-likelihood of the sum of the three wavelets built from indices 0-4, *)
(* 5-9 and 10-14, plus the three signal log-priors, plus the external      *)
(* log-prior on the three (time, frequency) pairs and indices 15-19.       *)
(***************************************************************************)
WaveletOf(x, o) == time_wavelet(time, x[o + 1], x[o + 2], x[o + 3], x[o + 4], x[o + 5])
SignalPriorOf(x, o) == get_signal_logprior(x[o + 3], x[o + 2], x[o + 4])
C4_Expected(x) ==
  ExtAdd(ExtAdd(get_logL(WaveAdd(WaveAdd(WaveletOf(x, 0), WaveletOf(x, 5)), WaveletOf(x, 10)),
                         wavelets),
                ExtAdd(ExtAdd(SignalPriorOf(x, 0), SignalPriorOf(x, 5)), SignalPriorOf(x, 10))),
         EccAt(x))

C4_PosteriorSum ==
  \A fr \in Frames :
    (fr.pc = "done" /\ fr.lp = Fin(0)) => fr.ret = C4_Expected(fr.x)

\* an accepted call returned a number made of a nonzero likelihood and a
\* nonzero external prior
C4_Witness ==
  \E fr \in Frames :
    /\ fr.pc = "done"
    /\ fr.lp = Fin(0)
    /\ isfinite(fr.ret)
    /\ fr.log_like # Fin(0)
    /\ fr.log_ecc # Fin(0)

(***************************************************************************)
(* C5.  As claimed: whenever get_signal_logprior is evaluated inside       *)
(* get_logP its arguments satisfy A > 0 and f0 > 0.                        *)
(***************************************************************************)
C5_Original ==
  \A fr \in Frames :
    \A c \in CallsTo(fr, "get_signal_logprior") : c.amp > 0 /\ c.cfreq > 0

(***************************************************************************)
(* C5, amended.  Whenever get_signal_logprior is evaluated inside get_logP *)
(* its arguments satisfy A >= 0 and f0 > 0; with A = 0 the signal prior is *)
(* -inf and so is the value get_logP returns.                              *)
(***************************************************************************)
C5_NonNegativeAmp ==
  \A fr \in Frames :
    /\ \A c \in CallsTo(fr, "get_signal_logprior") : c.amp >= 0 /\ c.cfreq > 0
    /\ (fr.pc = "done" /\ fr.lp = Fin(0) /\ \E w \in 0..2 : fr.x[5 * w + 3] = 0)
         => fr.ret = NegInf

\* get_signal_logprior has been called with amplitude 0
C5_Witness ==
  \E fr \in Frames :
    /\ fr.pc = "done"
    /\ \E c \in CallsTo(fr, "get_signal_logprior") : c.amp = 0
(***************************************************************************)
(* C6.  get_logP is pure and safe under concurrent evaluation: with the    *)
(* two workers' steps interleaved in any order, each finished call is what *)
(* the same call gives when it runs alone on the data the driver built,    *)
(* and no step of a worker changes its parameter vector, the population,   *)
(* the Time Grid, the Observed Data or the prior object.                   *)
(***************************************************************************)
C6_SoloResult ==
  pc \in {"sampling", "done"} =>
    /\ time = TimeGrid
    /\ wavelets = Dataset
    /\ ep = NewPrior(tmin, tmax)
    /\ \A w \in 1..processes :
         wk[w].pc = "done" => wk[w] = get_logP(wk[w].x, TimeGrid, Dataset)

C6_NoMutation ==
  pc = "sampling" =>
    /\ \A w \in 1..processes :
         wk[w].pc \notin {"idle", "done"} => wk'[w].x = wk[w].x
    /\ x0' = x0
    /\ time' = time
    /\ wavelets' = wavelets
    /\ ep' = ep

C6_PureConcurrent == []C6_SoloResult /\ [][C6_NoMutation]_vars

\* one worker has finished a call while the other is inside the loop of a
\* call on another vector
C6_Witness ==
  /\ wk[1].pc = "done" /\ isfinite(wk[1].ret)
  /\ wk[2].pc = "loop" /\ wk[2].i = 1
  /\ wk[1].x # wk[2].x

(***************************************************************************)
(* C7.  The upper frequency bound is inclusive.  A vector that is valid in *)
(* every other respect (also not below the lowest frequency) and has a     *)
(* frequency exactly at Nyquist 1/(2*dt) passes the local checks, so the   *)
(* external prior is consulted; a vector with a frequency one unit above   *)
(* Nyquist makes get_logP_uniform return -inf.                             *)
(***************************************************************************)
ValidUpToNyquist(x) ==
  \A w \in 0..2 :
    /\ ~TimeOutside(x, w)
    /\ ~FreqTooLow(x, w)
    /\ 2 * x[5 * w + 2] * GridStep <= CycleU
    /\ x[5 * w + 4] >= 10
    /\ x[5 * w + 3] >= 0
    /\ x[5 * w + 5] >= -PiU
    /\ x[5 * w + 5] <= PiU

C7_NyquistInclusive ==
  \A fr \in Frames :
    Filtered(fr) =>
      /\ (ValidUpToNyquist(fr.x) /\ \E w \in 0..2 : AtNyquist(fr.x[5 * w + 2]))
           => fr.calls # <<>>
      /\ (\E w \in 0..2 : AtNyquist(fr.x[5 * w + 2] - 1))
           => (fr.lp = NegInf /\ fr.calls = <<>>)

\* one call at Nyquist accepted, one call one unit above rejected
C7_Witness ==
  \E fr \in Frames, gr \in Frames :
    /\ fr.pc = "done" /\ AtNyquist(fr.x[2]) /\ fr.lp = Fin(0)
    /\ gr.pc = "done" /\ AtNyquist(gr.x[2] - 1) /\ gr.lp = NegInf

(***************************************************************************)
(* C8.  As claimed: get_logP evaluated at the parameters the Observed Data *)
(* was built from, with the external prior finite there, has likelihood    *)
(* term 0 and a finite result; and get_logL is 0 exactly when model and    *)
(* data are equal elementwise, negative otherwise.                         *)
(***************************************************************************)
LikelihoodDefinite(fr) ==
  fr.log_like # Unset =>
    /\ fr.log_like.v <= 0
    /\ (fr.log_like.v = 0) <=> (fr.wavelet_model = wavelets)

C8_Original ==
  \A fr \in Frames :
    /\ (fr.pc = "done" /\ fr.x = wavelet_params /\ isfinite(EccAt(fr.x)))
         => (fr.log_like = Fin(0) /\ isfinite(fr.ret))
    /\ LikelihoodDefinite(fr)

(***************************************************************************)
(* C8, amended.  get_logP evaluated at the parameters the Observed Data    *)
(* was built from, when these violate no local bound, have amplitudes      *)
(* above 0 and the external prior is finite there, has likelihood term 0   *)
(* and a finite result, the same in every evaluation; and get_logL is 0    *)
(* exactly when model and data are equal elementwise, negative otherwise.  *)
(***************************************************************************)
C8_RoundTrip ==
  \A fr \in Frames :
    /\ ( /\ fr.pc = "done"
         /\ fr.x = wavelet_params
         /\ ~ViolatesLocalBound(fr.x)
         /\ \A w \in 0..2 : fr.x[5 * w + 3] > 0
         /\ isfinite(EccAt(fr.x)) )
         => /\ fr.log_like = Fin(0)
            /\ isfinite(fr.ret)
            /\ \A gr \in Frames : (gr.pc = "done" /\ gr.x = fr.x) => gr.ret = fr.ret
    /\ LikelihoodDefinite(fr)

\* both workers have evaluated the injected parameters, and start_loc's
\* last call was on another vector, with a negative likelihood term
C8_Witness ==
  /\ \A w \in 1..processes :
       wk[w].pc = "done" /\ wk[w].x = wavelet_params /\ wk[w].log_like = Fin(0)
  /\ sl.fr.log_like # Unset
  /\ sl.fr.log_like.v < 0

(***************************************************************************)
(* C9.  start_loc has no retry cap.  With fair draws it returns when some  *)
(* draw gives a vector whose log-posterior is not infinite; when no draw   *)
(* does, the while loop of a walker is never left and start_loc never      *)
(* returns.                                                                *)
(***************************************************************************)
AcceptableDraw ==
  \E dr \in Draws : ~isinf(get_logP(Perturb(Reference, dr), TimeGrid, Dataset).ret)

C9_Unbounded ==
  /\ (InStartLoc /\ AcceptableDraw) ~> StartLocReturned
  /\ []((pc # "make_dataset" /\ ~AcceptableDraw) => ~StartLocReturned)

\* the while loop has resampled a walker and no draw can be accepted
C9_Witness ==
  /\ pc = "sl_while"
  /\ ~AcceptableDraw
  /\ sl.i = args.walkers
  /\ sl.x # Reference
  /\ Resample(sl.lp)

(***************************************************************************)
(* C10.  On every code path the Bounds Filter has been evaluated on the    *)
(* parameters before the Wavelet Model or the Signal Amplitude Prior is    *)
(* called with them, so a zero or negative frequency or quality factor     *)
(* never reaches either function.                                          *)
(***************************************************************************)
C10_FilterFirst ==
  /\ \A j \in 1..Len(drv_calls) :
       drv_calls[j].filtered /\ drv_calls[j].cfreq > 0 /\ drv_calls[j].Q > 0
  /\ \A fr \in Frames :
       \A c \in CallsTo(fr, "time_wavelet") \cup CallsTo(fr, "get_signal_logprior") :
         fr.lp = Fin(0) /\ c.cfreq > 0 /\ c.Q > 0

====
